---- MODULE Spec2Model ----
(***************************************************************************)
(* A model of app.py, the SEO content optimisation tool: the text metrics  *)
(* (keyword density, readability, content score), the competitor analysis  *)
(* with its best-effort page fetch, the LLM call, and the button handlers  *)
(* of one browser session.                                                 *)
(*                                                                         *)
(* Text is a sequence of one-character strings.  Python floats are          *)
(* modelled by exact rationals <<numerator, denominator>> in lowest terms  *)
(* with a positive denominator; round(x, n) is round-half-even on the      *)
(* exact value.  Where the exact value lies half-way between two results   *)
(* the binary float of the program may fall on either side of the tie, so  *)
(* the last digit of a rounded score can differ from the program's there;  *)
(* no property below depends on the direction of a tie.                    *)
(***************************************************************************)
EXTENDS Integers, Sequences, FiniteSets, Bags, TLC

VARIABLES
    openai_api_key,     \* sidebar text input
    keyword_input,      \* "Enter target keyword" text input
    content_input,      \* "Paste your content here" text area
    research_keyword,   \* "Enter seed keyword" text input
    current_keyword,    \* st.session_state.current_keyword
    competitors,        \* st.session_state.competitors
    shown,              \* what the last script run displayed
    fetched,            \* the page requests of the last script run, in order
    api_calls,          \* the LLM API calls of the last script run, in order
    analysed,           \* history: keyword of the last completed analysis, << >> if none
    arg_text,           \* function call: the text argument
    arg_keyword,        \* function call: the keyword argument
    ret                 \* function call: the value returned

vars == <<openai_api_key, keyword_input, content_input, research_keyword,
          current_keyword, competitors, shown, fetched, api_calls, analysed,
          arg_text, arg_keyword, ret>>

session_vars == <<openai_api_key, keyword_input, content_input, research_keyword,
                  current_keyword, competitors, shown, fetched, api_calls, analysed>>

call_vars == <<arg_text, arg_keyword, ret>>

\* an output slot a run left empty, and the value of a call not yet made
None == [kind |-> "none"]

----------------------------------------------------------------------------
(* Bounds of the model *)

MaxLen == 3        \* longest text enumerated character by character
MaxKwLen == 1      \* longest keyword enumerated character by character
MaxReadLen == 5    \* longest text whose readability is enumerated
MaxOcc == 13       \* most keyword words in a generated long text
MaxFill == 200     \* most filler words in a generated long text

----------------------------------------------------------------------------
(* Characters and strings *)

Chars == {"a", "A", "k", " ", "."}

\* str.lower() on one character
lower_char(c) == IF c = "A" THEN "a" ELSE c

\* the sequence with the values of function f on 1..n
AsSeq(f) == << >> \o f

\* str.lower()
str_lower(s) == AsSeq([i \in DOMAIN s |-> lower_char(s[i])])

\* the regular expression class \w
IsWordChar(c) == c \in {"a", "A", "k"}

\* the characters str.split() separates on
IsSpace(c) == c = " "

\* vowels = 'aeiouy'
vowels == {"a", "e", "i", "o", "u", "y"}

\* A Python list of the pieces cut from a string is modelled as a function
\* from the offset at which each piece starts to the piece: its items in
\* increasing offset are the list's items in order.
list_len(l) == Cardinality(DOMAIN l)

\* list.count(x)
list_count(l, x) == Cardinality({i \in DOMAIN l : l[i] = x})

\* the maximal runs of characters of the class cls, keyed by their first offset
Runs(s, cls) ==
    LET n      == Len(s)
        starts == {i \in 1..n : s[i] \in cls /\ (i = 1 \/ s[i - 1] \notin cls)}
        stop(i) == CHOOSE j \in i..n : /\ \A k \in i..j : s[k] \in cls
                                       /\ (j = n \/ s[j + 1] \notin cls)
    IN  [i \in starts |-> SubSeq(s, i, stop(i))]

\* the characters matching \w, and the characters that are not whitespace
WordChars == {c \in Chars : IsWordChar(c)}
NonSpaceChars == {c \in Chars : ~IsSpace(c)}

\* re.findall(r'\w+', s): the maximal runs of word characters
findall_w(s) == Runs(s, WordChars)

\* s.split(): the maximal runs of non-whitespace characters
split_ws(s) == Runs(s, NonSpaceChars)

\* s.split(sep) for a one-character sep: the pieces between separators,
\* empty pieces kept; a piece starts at offset 1 and after every separator
split_sep(s, sep) ==
    LET n      == Len(s)
        starts == {1} \cup {i + 1 : i \in {j \in 1..n : s[j] = sep}}
        stop(i) == CHOOSE j \in (i - 1)..n : /\ \A k \in i..j : s[k] # sep
                                             /\ (j = n \/ s[j + 1] = sep)
    IN  [i \in starts |-> SubSeq(s, i, stop(i))]

\* s.replace(old, new) for one-character old and new
str_replace(s, old, new) == AsSeq([i \in DOMAIN s |-> IF s[i] = old THEN new ELSE s[i]])

----------------------------------------------------------------------------
(* Exact rational arithmetic standing for Python's float arithmetic *)

RECURSIVE GCD(_, _)
GCD(a, b) == IF b = 0 THEN a ELSE GCD(b, a % b)

IAbs(n) == IF n < 0 THEN -n ELSE n

Rat(n, d) ==
    LET g == GCD(IAbs(n), IAbs(d))
        s == IF d < 0 THEN -1 ELSE 1
    IN  <<(s * n) \div g, (s * d) \div g>>

RInt(n) == <<n, 1>>

RAdd(x, y) ==
    LET g == GCD(x[2], y[2])
    IN  Rat(x[1] * (y[2] \div g) + y[1] * (x[2] \div g), (x[2] \div g) * y[2])

RNeg(x) == <<-x[1], x[2]>>
RSub(x, y) == RAdd(x, RNeg(y))

RMul(x, y) ==
    LET a == Rat(x[1], y[2])
        b == Rat(y[1], x[2])
    IN  <<a[1] * b[1], a[2] * b[2]>>

RLe(x, y) == RSub(x, y)[1] <= 0
RLt(x, y) == RSub(x, y)[1] < 0
RAbs(x) == <<IAbs(x[1]), x[2]>>
RMax(x, y) == IF RLt(x, y) THEN y ELSE x
RMin(x, y) == IF RLt(y, x) THEN y ELSE x

\* 10^n for the two precisions the program rounds to
Pow10(n) == IF n = 1 THEN 10 ELSE 100

\* round(x, n): the nearest multiple of 10^-n, ties to the even one
round(x, n) ==
    LET p    == Pow10(n)
        whole == x[1] \div x[2]
        frac == x[1] % x[2]
        q    == (p * frac) \div x[2]
        r    == (p * frac) % x[2]
        up   == \/ 2 * r > x[2]
                \/ (2 * r = x[2] /\ q % 2 = 1)
    IN  RAdd(RInt(whole), Rat(IF up THEN q + 1 ELSE q, p))

----------------------------------------------------------------------------
(* Content scoring *)

\* the inner loop of calculate_readability over the characters of one word
RECURSIVE syllable_loop(_, _, _, _)
syllable_loop(word, i, prev_char_vowel, syllables) ==
    IF i > Len(word)
    THEN syllables
    ELSE syllable_loop(word, i + 1, word[i] \in vowels,
                       IF word[i] \in vowels /\ ~prev_char_vowel
                       THEN syllables + 1 ELSE syllables)

\* word_syllables counting the vowels of the word as typed, not lower-cased
word_syllables_as_typed(word) ==
    LET syllables == syllable_loop(word, 1, FALSE, 0)
    IN  IF syllables = 0 THEN 1 ELSE syllables

\* the syllables counted for one word, a word without a vowel counting as one
word_syllables(word) ==
    LET syllables == syllable_loop(str_lower(word), 1, FALSE, 0)
    IN  IF syllables = 0 THEN 1 ELSE syllables

\* the outer loop of calculate_readability: the sum over the words (the bag
\* holds each word's syllables, at least one, and its cardinality is their sum)
sum_syllables(words) ==
    BagCardinality([i \in DOMAIN words |-> word_syllables(words[i])])

calculate_readability(text) ==
    LET sentences == split_sep(text, ".")
        words     == split_ws(text)
    IN  IF list_len(sentences) = 0 \/ list_len(words) = 0
        THEN RInt(0)
        ELSE LET avg_sentence_length    == Rat(list_len(words), list_len(sentences))
                 total_syllables        == sum_syllables(words)
                 avg_syllables_per_word == Rat(total_syllables, list_len(words))
                 readability ==
                     RSub(RSub(Rat(206835, 1000),
                               RMul(Rat(1015, 1000), avg_sentence_length)),
                          RMul(Rat(846, 10), avg_syllables_per_word))
             IN  RMax(RInt(0), RMin(RInt(100), readability))

\* keyword density with the keyword compared as typed, not lower-cased
keyword_density_keyword_as_typed(content, keyword) ==
    LET words               == findall_w(str_lower(content))
        word_count          == list_len(words)
        keyword_occurrences == list_count(words, keyword)
    IN  IF word_count > 0
        THEN RMul(Rat(keyword_occurrences, word_count), RInt(100))
        ELSE RInt(0)

\* keyword density counting the places where the keyword occurs in the text,
\* as content.lower().count(keyword.lower()) would (overlaps left aside)
keyword_density_substring(content, keyword) ==
    LET text                == str_lower(content)
        kw                  == str_lower(keyword)
        words               == findall_w(text)
        word_count          == list_len(words)
        keyword_occurrences ==
            Cardinality({i \in 1..(Len(text) - Len(kw) + 1) :
                            Len(kw) > 0 /\ SubSeq(text, i, i + Len(kw) - 1) = kw})
    IN  IF word_count > 0
        THEN RMul(Rat(keyword_occurrences, word_count), RInt(100))
        ELSE RInt(0)

\* keyword density as score_content computes it
keyword_density(content, keyword) ==
    LET words               == findall_w(str_lower(content))
        word_count          == list_len(words)
        keyword_occurrences == list_count(words, str_lower(keyword))
    IN  IF word_count > 0
        THEN RMul(Rat(keyword_occurrences, word_count), RInt(100))
        ELSE RInt(0)

\* keyword_score with the deviation weighted by 10 instead of 20
keyword_score_factor10(density) ==
    RMax(RInt(0),
         RMin(RInt(100),
              RSub(RInt(100), RMul(RAbs(RSub(density, Rat(15, 10))), RInt(10)))))

\* keyword_score of score_content, before rounding
keyword_score(density) ==
    RMax(RInt(0),
         RMin(RInt(100),
              RSub(RInt(100), RMul(RAbs(RSub(density, Rat(15, 10))), RInt(20)))))

technical_score == 50
competitive_score == 50

\* the over-optimisation check with >= in place of >
density_warnings_ge(density) ==
    IF RLe(Rat(25, 10), density)
    THEN << [warning |-> "High keyword density", density |-> round(density, 1)] >>
    ELSE << >>

\* the over-optimisation check of score_content
density_warnings(density) ==
    IF RLt(Rat(25, 10), density)
    THEN << [warning |-> "High keyword density", density |-> round(density, 1)] >>
    ELSE << >>

\* the values score_content computes before it blends them
score_locals(content, keyword) ==
    [ keyword_density |-> keyword_density(content, keyword),
      quality_score   |-> calculate_readability(content) ]

\* score_result with a competitive score that grows with the competitor list
score_result_uses_competitors(density, kw_score, quality_score, competitor_list) ==
    LET competitive == competitive_score + Len(competitor_list)
        total_score ==
            RAdd(RAdd(RMul(kw_score, Rat(3, 10)),
                      RMul(quality_score, Rat(25, 100))),
                 RAdd(RMul(RInt(technical_score), Rat(25, 100)),
                      RMul(RInt(competitive), Rat(2, 10))))
    IN  [ total_score     |-> round(total_score, 1),
          category_scores |->
              [ keyword_optimization  |-> round(kw_score, 1),
                content_quality       |-> round(quality_score, 1),
                technical_seo         |-> round(RInt(technical_score), 1),
                competitive_alignment |-> round(RInt(competitive), 1) ],
          warnings        |-> density_warnings(density) ]

\* score_result with the keyword weight 0.4, so that the weights sum to 1.1
score_result_weight_04(density, kw_score, quality_score, competitor_list) ==
    LET total_score ==
            RAdd(RAdd(RMul(kw_score, Rat(4, 10)),
                      RMul(quality_score, Rat(25, 100))),
                 RAdd(RMul(RInt(technical_score), Rat(25, 100)),
                      RMul(RInt(competitive_score), Rat(2, 10))))
    IN  [ total_score     |-> round(total_score, 1),
          category_scores |->
              [ keyword_optimization  |-> round(kw_score, 1),
                content_quality       |-> round(quality_score, 1),
                technical_seo         |-> round(RInt(technical_score), 1),
                competitive_alignment |-> round(RInt(competitive_score), 1) ],
          warnings        |-> density_warnings(density) ]

\* the weighted average and the dict score_content returns
score_result(density, kw_score, quality_score, competitor_list) ==
    LET total_score ==
            RAdd(RAdd(RMul(kw_score, Rat(3, 10)),
                      RMul(quality_score, Rat(25, 100))),
                 RAdd(RMul(RInt(technical_score), Rat(25, 100)),
                      RMul(RInt(competitive_score), Rat(2, 10))))
    IN  [ total_score     |-> round(total_score, 1),
          category_scores |->
              [ keyword_optimization  |-> round(kw_score, 1),
                content_quality       |-> round(quality_score, 1),
                technical_seo         |-> round(RInt(technical_score), 1),
                competitive_alignment |-> round(RInt(competitive_score), 1) ],
          warnings        |-> density_warnings(density) ]

\* score_content with the values of its local variables beside its result
score_trace(locals, competitor_list) ==
    [ keyword_density |-> locals.keyword_density,
      keyword_score   |-> keyword_score(locals.keyword_density),
      quality_score   |-> locals.quality_score,
      result          |-> score_result(locals.keyword_density,
                                       keyword_score(locals.keyword_density),
                                       locals.quality_score, competitor_list) ]

score_content(content, keyword, competitor_list) ==
    score_trace(score_locals(content, keyword), competitor_list).result

get_score_class(score) ==
    IF RLe(RInt(80), score) THEN "score-excellent"
    ELSE IF RLe(RInt(60), score) THEN "score-good"
    ELSE IF RLe(RInt(40), score) THEN "score-fair"
    ELSE "score-poor"

----------------------------------------------------------------------------
(* SERP scraper and competitor analysis *)

\* what the network and the HTML parser hand to extract_page_data: Failure
\* stands for any exception raised inside its try block
Failure == [ok |-> FALSE]

Page(text) == [ok |-> TRUE, title |-> "title", meta_description |-> "", text |-> text]

mock_results(keyword) ==
    << [position |-> 1,
        title    |-> [page |-> 1, keyword |-> keyword],
        url      |-> [host |-> "example.com", path |-> str_replace(keyword, " ", "-")]],
       [position |-> 2,
        title    |-> [page |-> 2, keyword |-> keyword],
        url      |-> [host |-> "example.org", path |-> str_replace(keyword, " ", "-")]],
       [position |-> 3,
        title    |-> [page |-> 3, keyword |-> keyword],
        url      |-> [host |-> "example.net", path |-> str_replace(keyword, " ", "-")]] >>

default_num_results == 10

\* mock_results[:num_results]
scrape_top_results(keyword, num_results) ==
    LET all == mock_results(keyword)
    IN  SubSeq(all, 1, IF num_results < Len(all) THEN num_results ELSE Len(all))

\* extract_page_data without its try/except: a failed fetch raises
extract_page_data_uncaught(url, response) ==
    [ requests  |-> << [url |-> url, ok |-> response.ok] >>,
      raised    |-> ~response.ok,
      page_data |-> IF ~response.ok
                    THEN [url |-> url, error |-> "error"]
                    ELSE [url |-> url, title |-> response.title,
                          meta_description |-> response.meta_description,
                          text |-> response.text] ]

\* one call of extract_page_data: the requests it sends and the dict it returns
extract_page_data(url, response) ==
    [ requests  |-> << [url |-> url, ok |-> response.ok] >>,
      raised    |-> FALSE,
      page_data |-> IF ~response.ok
                    THEN [url |-> url, error |-> "error"]
                    ELSE [url |-> url, title |-> response.title,
                          meta_description |-> response.meta_description,
                          text |-> response.text] ]

\* dict.get(key, default)
dict_get(d, key, default) == IF key \in DOMAIN d THEN d[key] ELSE default

\* keyword density as analyze_serp_competitors computes it
serp_keyword_density(text_content, keyword) ==
    LET words               == findall_w(str_lower(text_content))
        word_count          == list_len(words)
        keyword_occurrences == list_count(words, str_lower(keyword))
    IN  IF word_count > 0
        THEN RMul(Rat(keyword_occurrences, word_count), RInt(100))
        ELSE RInt(0)

\* the competitor entry built by one iteration of the loop
competitor_entry(result, page_data, keyword) ==
    LET text_content == dict_get(page_data, "text", << >>)
    IN  [ url               |-> result.url,
          title             |-> result.title,
          position          |-> dict_get(result, "position", 0),
          word_count        |-> list_len(findall_w(str_lower(text_content))),
          keyword_density   |-> round(serp_keyword_density(text_content, keyword), 2),
          readability_score |-> calculate_readability(text_content) ]

\* the loop of analyze_serp_competitors; responses[i] is what the network
\* answers to the request for results[i]
RECURSIVE analyze_loop(_, _, _, _, _)
analyze_loop(results, i, keyword, responses, acc) ==
    IF i > Len(results) \/ acc.raised
    THEN acc
    ELSE LET got == extract_page_data(results[i].url, responses[i])
         IN  analyze_loop(results, i + 1, keyword, responses,
                 [ competitors |-> IF got.raised THEN acc.competitors
                                   ELSE Append(acc.competitors,
                                               competitor_entry(results[i], got.page_data, keyword)),
                   requests    |-> acc.requests \o got.requests,
                   raised      |-> got.raised ])

analyze_serp_competitors(keyword, num_results, responses) ==
    analyze_loop(scrape_top_results(keyword, num_results), 1, keyword, responses,
                 [competitors |-> << >>, requests |-> << >>, raised |-> FALSE])

----------------------------------------------------------------------------
(* LLM integration *)

NotConfigured == [error |-> "OpenAI API key not configured. Please add it in the sidebar."]
ErrorGenerating == [error |-> "Error generating response"]

\* generate_ai_response without its try/except: a failed API call raises
generate_ai_response_uncaught(prompt, max_tokens, api_key, api) ==
    IF api_key = ""
    THEN [text |-> NotConfigured, calls |-> << >>, raised |-> FALSE]
    ELSE IF api = "ok"
         THEN [text |-> [completion_of |-> prompt, max_tokens |-> max_tokens],
               calls |-> << api >>, raised |-> FALSE]
         ELSE [text |-> ErrorGenerating, calls |-> << api >>, raised |-> TRUE]

\* one call of generate_ai_response; api is what the API call does, "ok" or
\* "error" (any exception raised by the call or by reading its response)
generate_ai_response(prompt, max_tokens, api_key, api) ==
    IF api_key = ""
    THEN [text |-> NotConfigured, calls |-> << >>, raised |-> FALSE]
    ELSE IF api = "ok"
         THEN [text |-> [completion_of |-> prompt, max_tokens |-> max_tokens],
               calls |-> << api >>, raised |-> FALSE]
         ELSE [text |-> ErrorGenerating, calls |-> << api >>, raised |-> FALSE]

----------------------------------------------------------------------------
(* Inputs *)

\* every string of at most n characters
Strings(n) == UNION {[1..k -> Chars] : k \in 0..n}

\* n copies of unit
Repeat(unit, n) == AsSeq([i \in 1..(n * Len(unit)) |-> unit[((i - 1) % Len(unit)) + 1]])

ShortTexts == Strings(MaxLen)
\* every keyword of at most MaxKwLen characters, and two keywords of two words
PhraseKeywords == { <<"a", " ", "k">>, <<"A", ".", "k">> }
ShortKeywords == Strings(MaxKwLen) \cup PhraseKeywords
ReadTexts == Strings(MaxReadLen)

\* long texts: n times the word "k", then m times a filler word
Fillers == { <<"a", " ">>, <<"a", ".", " ">> }
LongTexts ==
    { Repeat(<<"k", " ">>, n) \o Repeat(f, m) : n \in 0..MaxOcc, m \in 0..MaxFill, f \in Fillers }
LongKeywords == { <<"k">> }

\* what the user can type into the session's text inputs
KeywordInputs == { << >>, <<"k">>, <<"A", " ", "k">> }
ContentInputs == { << >>, <<"k">>, <<"k", " ", "a", ".", " ", "A", "k", "a">> }
ApiKeys == { "", "sk-key" }
ApiOutcomes == { "ok", "error" }
PageTexts == { <<"k", " ", "a", ".">> }
Responses == { Failure } \cup { Page(t) : t \in PageTexts }

----------------------------------------------------------------------------
(* One browser session: every action is one run of the script *)

\* what a run displays when no button's handler shows anything; the tabs
\* Content Optimization and Content Brief are locked behind a warning while
\* no keyword has been analysed
Display(button, keyword) ==
    [ button    |-> button,
      exception |-> FALSE,
      locked    |-> (keyword = << >>),
      analysis  |-> None,
      optimize  |-> None,
      research  |-> None,
      brief     |-> None ]

\* a run that an uncaught exception stopped
Aborted(button) == [Display(button, << >>) EXCEPT !.exception = TRUE]

Init ==
    /\ openai_api_key = ""
    /\ keyword_input = << >>
    /\ content_input = << >>
    /\ research_keyword = << >>
    /\ current_keyword = << >>
    /\ competitors = << >>
    /\ shown = Display("none", << >>)
    /\ fetched = << >>
    /\ api_calls = << >>
    /\ analysed = << >>
    /\ arg_text = << >>
    /\ arg_keyword = << >>
    /\ ret = None

TypeApiKey ==
    /\ \E k \in ApiKeys : k # openai_api_key /\ openai_api_key' = k
    /\ shown' = Display("none", current_keyword)
    /\ fetched' = << >>
    /\ api_calls' = << >>
    /\ UNCHANGED <<keyword_input, content_input, research_keyword,
                   current_keyword, competitors, analysed, call_vars>>

TypeKeyword ==
    /\ \E k \in KeywordInputs : k # keyword_input /\ keyword_input' = k
    /\ shown' = Display("none", current_keyword)
    /\ fetched' = << >>
    /\ api_calls' = << >>
    /\ UNCHANGED <<openai_api_key, content_input, research_keyword,
                   current_keyword, competitors, analysed, call_vars>>

TypeContent ==
    /\ current_keyword # << >>
    /\ \E c \in ContentInputs : c # content_input /\ content_input' = c
    /\ shown' = Display("none", current_keyword)
    /\ fetched' = << >>
    /\ api_calls' = << >>
    /\ UNCHANGED <<openai_api_key, keyword_input, research_keyword,
                   current_keyword, competitors, analysed, call_vars>>

TypeResearchKeyword ==
    /\ \E k \in KeywordInputs : k # research_keyword /\ research_keyword' = k
    /\ shown' = Display("none", current_keyword)
    /\ fetched' = << >>
    /\ api_calls' = << >>
    /\ UNCHANGED <<openai_api_key, keyword_input, content_input,
                   current_keyword, competitors, analysed, call_vars>>

\* the Analyze Competitors handler without its check for an empty keyword
AnalyzeBtn_unchecked ==
    /\ \E responses \in [1..3 -> Responses] :
         LET keyword == keyword_input
             done    == analyze_serp_competitors(keyword, default_num_results, responses)
         IN  /\ current_keyword' = keyword
             /\ competitors' = done.competitors
             /\ analysed' = keyword
             /\ fetched' = done.requests
             /\ shown' = [Display("analyze", keyword)
                            EXCEPT !.analysis = [kind |-> "success", keyword |-> keyword,
                                                 table |-> done.competitors]]
    /\ api_calls' = << >>
    /\ UNCHANGED <<openai_api_key, keyword_input, content_input, research_keyword,
                   call_vars>>

AnalyzeBtn ==
    /\ \E responses \in [1..3 -> Responses] :
         LET keyword == keyword_input
             done    == analyze_serp_competitors(keyword, default_num_results, responses)
         IN  IF keyword = << >>
             THEN /\ shown' = [Display("analyze", current_keyword)
                                 EXCEPT !.analysis = [kind |-> "error", message |-> "Please enter a keyword"]]
                  /\ fetched' = << >>
                  /\ UNCHANGED <<current_keyword, competitors, analysed>>
             ELSE IF done.raised
             THEN /\ shown' = Aborted("analyze")
                  /\ fetched' = done.requests
                  /\ UNCHANGED <<current_keyword, competitors, analysed>>
             ELSE /\ current_keyword' = keyword
                  /\ competitors' = done.competitors
                  /\ analysed' = keyword
                  /\ fetched' = done.requests
                  /\ shown' = [Display("analyze", keyword)
                                 EXCEPT !.analysis = [kind |-> "success", keyword |-> keyword,
                                                      table   |-> done.competitors]]
    /\ api_calls' = << >>
    /\ UNCHANGED <<openai_api_key, keyword_input, content_input, research_keyword,
                   call_vars>>

\* the five score cards
score_cards(score) ==
    [ overall               |-> get_score_class(score.total_score),
      keyword_optimization  |-> get_score_class(score.category_scores.keyword_optimization),
      content_quality       |-> get_score_class(score.category_scores.content_quality),
      technical_seo         |-> get_score_class(score.category_scores.technical_seo),
      competitive_alignment |-> get_score_class(score.category_scores.competitive_alignment) ]

OptimizeBtn ==
    /\ current_keyword # << >>
    /\ \E api \in ApiOutcomes :
         LET content == content_input
             prompt  == [task |-> "analyze content", keyword |-> current_keyword,
                         content |-> content]
             recommendations == generate_ai_response(prompt, 1000, openai_api_key, api)
             score   == score_content(content, current_keyword, competitors)
         IN  IF content = << >>
             THEN /\ shown' = [Display("optimize", current_keyword)
                                 EXCEPT !.optimize = [kind |-> "error", message |-> "Please enter some content"]]
                  /\ api_calls' = << >>
             ELSE IF recommendations.raised
             THEN /\ shown' = Aborted("optimize")
                  /\ api_calls' = recommendations.calls
             ELSE /\ shown' = [Display("optimize", current_keyword)
                                 EXCEPT !.optimize =
                                     [ kind            |-> "score",
                                       keyword         |-> prompt.keyword,
                                       score           |-> score,
                                       cards           |-> score_cards(score),
                                       recommendations |-> recommendations.text ]]
                  /\ api_calls' = recommendations.calls
    /\ fetched' = << >>
    /\ UNCHANGED <<openai_api_key, keyword_input, content_input, research_keyword,
                   current_keyword, competitors, analysed, call_vars>>

ResearchBtn ==
    /\ \E api \in ApiOutcomes :
         LET prompt   == [task |-> "keyword research", keyword |-> research_keyword]
             research == generate_ai_response(prompt, 1500, openai_api_key, api)
         IN  IF research_keyword = << >>
             THEN /\ shown' = [Display("research", current_keyword)
                                 EXCEPT !.research = [kind |-> "error", message |-> "Please enter a keyword"]]
                  /\ api_calls' = << >>
             ELSE IF research.raised
             THEN /\ shown' = Aborted("research")
                  /\ api_calls' = research.calls
             ELSE /\ shown' = [Display("research", current_keyword)
                                 EXCEPT !.research = [kind |-> "text", text |-> research.text]]
                  /\ api_calls' = research.calls
    /\ fetched' = << >>
    /\ UNCHANGED <<openai_api_key, keyword_input, content_input, research_keyword,
                   current_keyword, competitors, analysed, call_vars>>

BriefBtn ==
    /\ current_keyword # << >>
    /\ \E api \in ApiOutcomes :
         LET prompt == [task |-> "content brief", keyword |-> current_keyword]
             brief  == generate_ai_response(prompt, 1200, openai_api_key, api)
         IN  IF brief.raised
             THEN /\ shown' = Aborted("brief")
                  /\ api_calls' = brief.calls
             ELSE /\ shown' = [Display("brief", current_keyword)
                                 EXCEPT !.brief = [kind |-> "text", keyword |-> prompt.keyword,
                                                   text    |-> brief.text]]
                  /\ api_calls' = brief.calls
    /\ fetched' = << >>
    /\ UNCHANGED <<openai_api_key, keyword_input, content_input, research_keyword,
                   current_keyword, competitors, analysed, call_vars>>

Next ==
    \/ TypeApiKey
    \/ TypeKeyword
    \/ TypeContent
    \/ TypeResearchKeyword
    \/ AnalyzeBtn
    \/ OptimizeBtn
    \/ ResearchBtn
    \/ BriefBtn

Spec == Init /\ [][Next]_vars

----------------------------------------------------------------------------
(* Calls of the pure functions on enumerated arguments *)

SessionIdle ==
    /\ openai_api_key = ""
    /\ keyword_input = << >>
    /\ content_input = << >>
    /\ research_keyword = << >>
    /\ current_keyword = << >>
    /\ competitors = << >>
    /\ shown = Display("none", << >>)
    /\ fetched = << >>
    /\ api_calls = << >>
    /\ analysed = << >>

\* competitor lists to call score_content with
CompetitorArgs(keyword) ==
    { << >> } \cup
    { analyze_serp_competitors(keyword, default_num_results,
                               [i \in 1..3 |-> Page(t)]).competitors : t \in PageTexts }

CallScoreContent ==
    /\ ret = None
    /\ \E c \in CompetitorArgs(arg_keyword) :
         ret' = [kind  |-> "score_content",
                 trace |-> score_trace(score_locals(arg_text, arg_keyword), c)]
    /\ UNCHANGED <<session_vars, arg_text, arg_keyword>>

CallReadability ==
    /\ ret = None
    /\ ret' = [kind |-> "calculate_readability", value |-> calculate_readability(arg_text)]
    /\ UNCHANGED <<session_vars, arg_text, arg_keyword>>

CallAnalyze ==
    /\ ret = None
    /\ \E failed \in 0..3 :
         LET responses == [i \in 1..3 |-> IF i = failed THEN Failure ELSE Page(arg_text)]
         IN
         ret' = [kind      |-> "analyze_serp_competitors",
                 responses |-> responses,
                 value     |-> analyze_serp_competitors(arg_keyword, default_num_results,
                                                        responses)]
    /\ UNCHANGED <<session_vars, arg_text, arg_keyword>>

CallInit ==
    /\ SessionIdle
    /\ arg_text \in ShortTexts
    /\ arg_keyword \in ShortKeywords
    /\ ret = None

CallNext == CallScoreContent \/ CallAnalyze

CallSpec == CallInit /\ [][CallNext]_vars

ReadInit ==
    /\ SessionIdle
    /\ arg_text \in ReadTexts
    /\ arg_keyword = << >>
    /\ ret = None

ReadNext == CallReadability

ReadSpec == ReadInit /\ [][ReadNext]_vars

LongInit ==
    /\ SessionIdle
    /\ arg_text \in LongTexts
    /\ arg_keyword \in LongKeywords
    /\ ret = None

LongNext == CallScoreContent

LongSpec == LongInit /\ [][LongNext]_vars

----------------------------------------------------------------------------
(* Properties of score_content on the long texts (LongSpec) *)

Scored == ret.kind = "score_content"

\* the density of a long text for the keyword "k", read off its shape: every
\* word is followed by one space, and the "k" words are the keyword's
LongShapeDensity ==
    LET ks     == Cardinality({i \in DOMAIN arg_text : arg_text[i] = "k"})
        spaces == Cardinality({i \in DOMAIN arg_text : arg_text[i] = " "})
    IN  IF spaces = 0 THEN RInt(0) ELSE Rat(100 * ks, spaces)

\* C1: total_score is 0.30*keyword_score + 0.25*quality_score + 0.25*50 +
\* 0.20*50 rounded to one decimal, with the unrounded category values;
\* technical_seo and competitive_alignment are reported as 50; and the
\* result is the one score_content returns for an empty competitors list,
\* whatever list was passed.
C1_TotalIsWeightedSum ==
    Scored =>
        LET t == ret.trace
        IN  /\ t.result.total_score =
                   round(RAdd(RAdd(RMul(Rat(30, 100), t.keyword_score),
                                   RMul(Rat(25, 100), t.quality_score)),
                              RAdd(RMul(Rat(25, 100), RInt(50)),
                                   RMul(Rat(20, 100), RInt(50)))), 1)
            /\ t.result.category_scores.technical_seo = RInt(50)
            /\ t.result.category_scores.competitive_alignment = RInt(50)
            /\ t = score_trace(score_locals(arg_text, arg_keyword), << >>)

\* a score whose keyword and quality values are both strictly inside (0, 100)
C1_Witness ==
    /\ Scored
    /\ RLt(RInt(0), ret.trace.keyword_score)
    /\ RLt(ret.trace.keyword_score, RInt(100))
    /\ RLt(RInt(0), ret.trace.quality_score)
    /\ RLt(ret.trace.quality_score, RInt(100))
    /\ ret.trace.result.total_score # RInt(ret.trace.result.total_score[1])

\* C2: the keyword score is 100 - |density - 1.5| * 20 clamped to [0, 100],
\* with density the keyword density in percent: it is 100 exactly when the
\* density is 1.5, 0 for every density of 6.5 or more, and always in [0, 100].
C2_KeywordScoreFormula ==
    Scored =>
        LET d   == ret.trace.keyword_density
            ks  == ret.trace.keyword_score
            raw == RSub(RInt(100), RMul(RAbs(RSub(d, Rat(3, 2))), RInt(20)))
        IN  /\ d = LongShapeDensity
            /\ ks = (IF RLt(raw, RInt(0)) THEN RInt(0)
                     ELSE IF RLt(RInt(100), raw) THEN RInt(100) ELSE raw)
            /\ RLe(RInt(0), ks) /\ RLe(ks, RInt(100))
            /\ (ks = RInt(100) <=> d = Rat(3, 2))
            /\ (RLe(Rat(13, 2), d) => ks = RInt(0))
            /\ (RLt(d, Rat(13, 2)) => RLt(RInt(0), ks))

\* a content of density exactly 1.5 scored 100
C2_Witness ==
    /\ Scored
    /\ ret.trace.keyword_density = Rat(3, 2)
    /\ ret.trace.keyword_score = RInt(100)

\* C4: warnings holds the keyword-stuffing warning, once, if and only if the
\* density is strictly greater than 2.5; at 2.5 or below it is empty.
C4_WarningIffAbove25 ==
    Scored =>
        LET d == ret.trace.keyword_density
            w == ret.trace.result.warnings
        IN  /\ d = LongShapeDensity
            /\ (RLt(Rat(5, 2), d) =>
                    /\ Len(w) = 1
                    /\ w[1].warning = "High keyword density")
            /\ (RLe(d, Rat(5, 2)) => w = << >>)

\* a content of density exactly 2.5, scored without a warning
C4_Witness ==
    /\ Scored
    /\ ret.trace.keyword_density = Rat(5, 2)
    /\ ret.trace.result.warnings = << >>

\* C9: total_score lies in [22.5, 77.5], so the overall card is never
\* 'score-excellent', and the technical_seo and competitive_alignment cards
\* are always 'score-fair'.
C9_TotalRange ==
    Scored =>
        LET r == ret.trace.result
        IN  /\ RLe(Rat(225, 10), r.total_score)
            /\ RLe(r.total_score, Rat(775, 10))
            /\ score_cards(r).overall # "score-excellent"
            /\ score_cards(r).technical_seo = "score-fair"
            /\ score_cards(r).competitive_alignment = "score-fair"

\* the largest total, 77.5, is reached
C9_Witness ==
    /\ Scored
    /\ ret.trace.result.total_score = Rat(775, 10)
    /\ score_cards(ret.trace.result).overall = "score-good"

----------------------------------------------------------------------------
(* Properties of the keyword density on the short texts (CallSpec) *)

Analysed == ret.kind = "analyze_serp_competitors"

\* the lower-cased character at offset i of s
LowerAt(s, i) == lower_char(s[i])

\* the number of word tokens of s, counted at the offsets where a token ends
TokenCount(s) ==
    Cardinality({i \in 1..Len(s) :
                    IsWordChar(s[i]) /\ (i = Len(s) \/ ~IsWordChar(s[i + 1]))})

\* the number of word tokens of the lower-cased s that are exactly the
\* lower-cased k: k starts where a token starts, matches character by
\* character, and ends where that token ends
ExactOccurrences(s, k) ==
    Cardinality({i \in 1..Len(s) :
        /\ Len(k) > 0
        /\ i + Len(k) - 1 <= Len(s)
        /\ \A j \in 1..Len(k) :
              /\ IsWordChar(s[i + j - 1])
              /\ LowerAt(s, i + j - 1) = LowerAt(k, j)
        /\ (i = 1 \/ ~IsWordChar(s[i - 1]))
        /\ (i + Len(k) - 1 = Len(s) \/ ~IsWordChar(s[i + Len(k)]))})

\* (occurrences / total words) * 100, and 0 for a text without word tokens
PercentOfTokens(s, k) ==
    IF TokenCount(s) = 0 THEN RInt(0)
    ELSE Rat(100 * ExactOccurrences(s, k), TokenCount(s))

\* s with every letter in upper case
UpperCased(s) == AsSeq([i \in DOMAIN s |-> IF s[i] = "a" THEN "A" ELSE s[i]])

HasNonWordChar(k) == \E i \in DOMAIN k : ~IsWordChar(k[i])

\* C3: in score_content and in analyze_serp_competitors the keyword density
\* is (occurrences / total words) * 100 over the word tokens of the
\* lower-cased text that are exactly the lower-cased keyword, so it does not
\* change with the letter case of text or keyword; it is 0 for a text
\* without word tokens.
C3_DensityIsExactTokenShare ==
    /\ Scored =>
          /\ ret.trace.keyword_density = PercentOfTokens(arg_text, arg_keyword)
          /\ keyword_density(UpperCased(arg_text), arg_keyword) = ret.trace.keyword_density
          /\ keyword_density(arg_text, UpperCased(arg_keyword)) = ret.trace.keyword_density
          /\ keyword_density(str_lower(arg_text), str_lower(arg_keyword))
                 = ret.trace.keyword_density
    /\ Analysed =>
          \A i \in DOMAIN ret.value.competitors :
              LET text == IF ret.responses[i].ok THEN ret.responses[i].text ELSE << >>
                  c    == ret.value.competitors[i]
              IN  /\ c.word_count = TokenCount(text)
                  /\ c.keyword_density = round(PercentOfTokens(text, arg_keyword), 2)
                  /\ serp_keyword_density(text, arg_keyword)
                         = PercentOfTokens(text, arg_keyword)

\* a text of two tokens whose token "A" is counted for the keyword "a"
C3_Witness ==
    /\ Scored
    /\ arg_keyword = <<"a">>
    /\ arg_text = <<"A", " ", "k">>
    /\ ret.trace.keyword_density = RInt(50)

\* C10: for a keyword that contains a non-word character the occurrence
\* count is 0 for every content: score_content reports keyword_optimization
\* 70 and no warning, analyze_serp_competitors reports keyword_density 0.
C10_NonWordKeywordNeverCounted ==
    HasNonWordChar(arg_keyword) =>
        /\ Scored =>
              /\ list_count(findall_w(str_lower(arg_text)), str_lower(arg_keyword)) = 0
              /\ ret.trace.keyword_density = RInt(0)
              /\ ret.trace.result.category_scores.keyword_optimization = RInt(70)
              /\ ret.trace.result.warnings = << >>
        /\ Analysed =>
              \A i \in DOMAIN ret.value.competitors :
                  ret.value.competitors[i].keyword_density = RInt(0)

\* a content that is the two-word keyword "a k" verbatim, scored 70
C10_Witness ==
    /\ Scored
    /\ arg_keyword = <<"a", " ", "k">>
    /\ arg_text = <<"a", " ", "k">>
    /\ ret.trace.result.category_scores.keyword_optimization = RInt(70)

----------------------------------------------------------------------------
(* Properties of calculate_readability (ReadSpec) *)

IsVowelAt(s, i) == LowerAt(s, i) \in {"a", "e", "i", "o", "u", "y"}

\* the whitespace-separated words of s, counted at the offsets where one starts
WordStarts(s) == {i \in 1..Len(s) : s[i] # " " /\ (i = 1 \/ s[i - 1] = " ")}

\* the pieces of s.split('.'): the periods plus one
PieceCount(s) == Cardinality({i \in 1..Len(s) : s[i] = "."}) + 1

\* the maximal runs of vowels of s; no run crosses a space, so each lies in
\* one word
VowelRuns(s) ==
    Cardinality({i \in 1..Len(s) : IsVowelAt(s, i) /\ (i = 1 \/ ~IsVowelAt(s, i - 1))})

\* the words of s without a vowel, each counted as one syllable
VowellessWords(s) ==
    Cardinality({i \in WordStarts(s) :
        ~\E j \in i..Len(s) : IsVowelAt(s, j) /\ (\A k \in i..j : s[k] # " ")})

\* 206.835 - 1.015*ASL - 84.6*ASW clamped to [0, 100], 0 for a text without words
FleschOf(s) ==
    LET nwords == Cardinality(WordStarts(s))
        asl    == Rat(nwords, PieceCount(s))
        asw    == Rat(VowelRuns(s) + VowellessWords(s), nwords)
        raw    == RSub(RSub(Rat(206835, 1000), RMul(Rat(1015, 1000), asl)),
                       RMul(Rat(846, 10), asw))
    IN  IF nwords = 0 THEN RInt(0)
        ELSE IF RLt(raw, RInt(0)) THEN RInt(0)
        ELSE IF RLt(RInt(100), raw) THEN RInt(100)
        ELSE raw

\* C5: calculate_readability returns 206.835 - 1.015*ASL - 84.6*ASW clamped
\* to [0, 100], ASL the whitespace-separated words per piece of the split on
\* periods, ASW the average number of maximal vowel runs per lower-cased
\* word with a vowelless word counted as one; it returns 0 for a text
\* without words.
C5_ReadabilityFormula ==
    ret.kind = "calculate_readability" => ret.value = FleschOf(arg_text)

\* a one-word text of two sentences and two syllables, one vowel upper-case,
\* whose score 37.1275 is not clamped
C5_Witness ==
    /\ ret.kind = "calculate_readability"
    /\ arg_text = <<"A", "k", ".", "a", "k">>
    /\ ret.value = Rat(371275, 10000)

----------------------------------------------------------------------------
(* Properties of the session (Spec) *)

\* C6: an analysis requests each scraped result's page exactly once, in
\* order, and returns one entry per result in position order whether the
\* fetches succeed or fail; the entry of a failed fetch carries the result's
\* url, title and position with word_count, keyword_density and
\* readability_score 0; no failure reaches the caller.
C6_OneEntryPerResult ==
    (shown.button = "analyze" /\ keyword_input # << >>) =>
        LET results == scrape_top_results(keyword_input, default_num_results)
        IN  /\ ~shown.exception
            /\ shown.analysis.kind = "success"
            /\ shown.analysis.table = competitors
            /\ Len(fetched) = Len(results)
            /\ Len(competitors) = Len(results)
            /\ \A i \in DOMAIN results :
                  /\ fetched[i].url = results[i].url
                  /\ competitors[i].url = results[i].url
                  /\ competitors[i].title = results[i].title
                  /\ competitors[i].position = results[i].position
                  /\ competitors[i].position = i
                  /\ ~fetched[i].ok =>
                        /\ competitors[i].word_count = 0
                        /\ competitors[i].keyword_density = RInt(0)
                        /\ competitors[i].readability_score = RInt(0)

\* an analysis in which the first fetch failed and a later one succeeded
C6_Witness ==
    /\ shown.button = "analyze"
    /\ shown.analysis.kind = "success"
    /\ Len(fetched) = 3
    /\ ~fetched[1].ok
    /\ fetched[3].ok
    /\ competitors[1].word_count = 0
    /\ competitors[3].word_count > 0

\* what the LLM call of the last run returned, when the run made one
LlmText ==
    IF shown.button = "optimize" THEN shown.optimize.recommendations
    ELSE IF shown.button = "research" THEN shown.research.text
    ELSE shown.brief.text

LlmAsked ==
    \/ shown.button = "optimize" /\ content_input # << >>
    \/ shown.button = "research" /\ research_keyword # << >>
    \/ shown.button = "brief"

\* C7: generate_ai_response never raises: with an empty API key it returns
\* the 'API key not configured' text without calling the API, and when the
\* call fails it returns the 'Error generating response' text; so Optimize
\* Content with non-empty content always computes and displays the score.
C7_LlmNeverRaises ==
    /\ shown.button \in {"optimize", "research", "brief"} => ~shown.exception
    /\ LlmAsked =>
          /\ ~shown.exception
          /\ (openai_api_key = "" => api_calls = << >> /\ LlmText = NotConfigured)
          /\ (openai_api_key # "" => Len(api_calls) = 1)
          /\ (api_calls = << "error" >> => LlmText = ErrorGenerating)
    /\ (shown.button = "optimize" /\ content_input # << >>) =>
          /\ shown.optimize.kind = "score"
          /\ shown.optimize.score =
                 score_content(content_input, current_keyword, competitors)
          /\ shown.optimize.cards = score_cards(shown.optimize.score)

\* Optimize Content pressed with content and a key, the API call failing:
\* the score is displayed beside the error text
C7_Witness ==
    /\ shown.button = "optimize"
    /\ content_input # << >>
    /\ api_calls = << "error" >>
    /\ shown.optimize.kind = "score"
    /\ shown.optimize.recommendations = ErrorGenerating

C8_Inv ==
    /\ (current_keyword # << >>) <=> (competitors # << >>)
    /\ current_keyword = analysed
    /\ shown.locked <=> (analysed = << >>)
    /\ shown.optimize.kind # "none" => analysed # << >>
    /\ shown.optimize.kind = "score" => shown.optimize.keyword = analysed
    /\ shown.brief.kind # "none" =>
          /\ analysed # << >>
          /\ shown.brief.keyword = analysed

C8_Step ==
    /\ current_keyword # << >> => current_keyword' # << >>
    /\ (shown'.button = "analyze" /\ keyword_input = << >>) =>
          /\ shown'.analysis.kind = "error"
          /\ UNCHANGED <<current_keyword, competitors>>
    /\ (shown'.button = "analyze" /\ keyword_input # << >>) =>
          /\ current_keyword' = keyword_input
          /\ competitors' # << >>
    /\ shown'.button # "analyze" => UNCHANGED <<current_keyword, competitors>>

\* C8: Optimize Content and Generate Content Brief run only after an
\* analysis with a non-empty keyword has completed, and use the keyword of
\* the most recent one; an Analyze Competitors press with an empty keyword
\* reports an error and leaves current_keyword and competitors unchanged; no
\* action sets current_keyword back to empty; and current_keyword is
\* non-empty exactly when competitors is non-empty.
C8_KeywordOfLastAnalysis == [](C8_Inv) /\ [][C8_Step]_vars

\* Optimize Content displays a score for the analysed keyword while the
\* keyword input has since been emptied
C8_Witness ==
    /\ shown.button = "optimize"
    /\ shown.optimize.kind = "score"
    /\ keyword_input = << >>
    /\ shown.optimize.keyword = analysed
    /\ analysed # << >>

====
